---- MODULE Spec2Model ----
(***************************************************************************)
(* Ranking-evaluation engine of notebooks/Product_recommendation.ipynb:    *)
(* simple_evaluation (Precision@k / Recall@k) and evaluate_ranking_metrics *)
(* (MAP@k / NDCG@k), run as per-user loops over a held-out matrix and an   *)
(* array of recommendation rows.                                           *)
(*                                                                         *)
(* Numbers: a Python float is modelled as an exact fraction <<num, den>>   *)
(* in lowest terms with den > 0; <<0, 0>> is NaN (numpy's mean of an empty *)
(* list).  1/log2(i+2) is modelled in fixed point, in hundredths.          *)
(***************************************************************************)
EXTENDS Integers, Sequences, FiniteSets, TLC

\* ---- bounds of the explored inputs ----
MaxUsers == 2    \* rows of the prediction array / of the held-out matrix
NItems   == 2    \* columns of the held-out matrix (item indices 0..NItems-1)
MaxCols  == 3    \* columns of the prediction array
MaxK     == 4    \* largest k
MaxNegK  == 1    \* k ranges over -MaxNegK..MaxK
MaxCount == 1    \* largest interaction count in a cell of the held-out matrix

Items  == 0 .. (NItems - 1)
KRange == (0 - MaxNegK) .. MaxK
Fns    == {"simple_evaluation", "evaluate_ranking_metrics"}

VARIABLES
    test_csr,       \* held-out matrix: sequence of rows, row = [Items -> count]
    predictions,    \* sequence of recommendation rows (sequences of item indices)
    k,              \* requested cut-off
    pc,             \* "idle" (no call running) or "loop" (inside the per-user loop)
    fn,             \* the function that is running (or ran last), "" before any call
    user,           \* loop variable of the running call
    precisions,     \* simple_evaluation's local lists
    recalls,
    map_scores,     \* evaluate_ranking_metrics' local lists
    ndcg_scores,
    outcome,        \* per function, how its last finished call ended
    par             \* the per-user workers of the parallel variant (SpecWorkers)

vars == <<test_csr, predictions, k, pc, fn, user, precisions, recalls,
          map_scores, ndcg_scores, outcome, par>>

inputs == <<test_csr, predictions, k>>

\* ---- numbers ----
RECURSIVE GCD(_, _)
GCD(a, b) == IF b = 0 THEN a ELSE GCD(b, a % b)

Abs(x) == IF x < 0 THEN 0 - x ELSE x

NaN  == <<0, 0>>
Zero == <<0, 1>>
One  == <<1, 1>>

IsNaN(x) == x[2] = 0

\* n / d as a float (d # 0)
Frac(n, d) ==
    LET g == GCD(Abs(n), Abs(d))
        s == IF d < 0 THEN 0 - 1 ELSE 1
    IN  <<(s * n) \div g, (s * d) \div g>>

RAdd(x, y) == Frac(x[1] * y[2] + y[1] * x[2], x[2] * y[2])
RLeq(x, y) == x[1] * y[2] <= y[1] * x[2]
RLt(x, y)  == x[1] * y[2] < y[1] * x[2]
InUnit(x)  == ~IsNaN(x) /\ RLeq(Zero, x) /\ RLeq(x, One)

RECURSIVE RSum(_)
RSum(s) == IF s = <<>> THEN Zero ELSE RAdd(s[1], RSum(Tail(s)))

\* variant: a position-weighted average, sum(i * s[i]) / sum(i)
RECURSIVE WeightedSum(_, _)
WeightedSum(s, j) ==
    IF j = 0 THEN Zero
    ELSE RAdd(WeightedSum(s, j - 1), Frac(j * s[j][1], s[j][2]))

NpMeanWeighted(s) ==
    IF Len(s) = 0 THEN NaN
    ELSE LET t == WeightedSum(s, Len(s))
         IN  Frac(2 * t[1], t[2] * Len(s) * (Len(s) + 1))

\* np.mean of a Python list of floats: sum / count, NaN for the empty list
NpMean(s) ==
    IF Len(s) = 0 THEN NaN
    ELSE LET t == RSum(s) IN Frac(t[1], t[2] * Len(s))

\* 100 / log2(i + 2), rounded, for i = 0, 1, 2, ...
Log2Inv == <<100, 63, 50, 43, 39, 36, 33, 32>>
Discount(i) == Log2Inv[i + 1]

Min(a, b) == IF a < b THEN a ELSE b
Max(a, b) == IF a > b THEN a ELSE b

\* ---- the pieces of the loop bodies ----
\* variant: a k beyond the row's length yields nothing instead of the whole row
SliceExact(row, kk) ==
    LET n == IF kk >= 0 THEN (IF kk <= Len(row) THEN kk ELSE 0)
             ELSE Max(Len(row) + kk, 0)
    IN  SubSeq(row, 1, n)

\* variant: no truncation, the whole row is used
SliceWholeRow(row, kk) == row

\* row[:k] of Python: the first k entries, all but the last -k when k < 0
Slice(row, kk) ==
    LET n == IF kk >= 0 THEN Min(kk, Len(row)) ELSE Max(Len(row) + kk, 0)
    IN  SubSeq(row, 1, n)

\* variant: the threshold includes zero cells
ActualItemsNonNegative(row) == {i \in DOMAIN row : row[i] >= 0}

\* set(np.where(user_actual > 0)[0])
ActualItems(row) == {i \in DOMAIN row : row[i] > 0}

\* len(actual_items & set(predictions[user][:k]))
Hits(actual, row, kk) ==
    Cardinality(actual \cap {Slice(row, kk)[i] : i \in 1 .. Len(Slice(row, kk))})

\* variant: divides by the number of entries actually sliced, not by k
PrecisionByLength(actual, row, kk) ==
    IF Len(Slice(row, kk)) = 0 THEN Zero
    ELSE Frac(Hits(actual, row, kk), Len(Slice(row, kk)))

\* precision = hits / k     (k # 0)
Precision(actual, row, kk) == Frac(Hits(actual, row, kk), kk)

\* variant: floor division, hits // len(actual_items)
RecallFloor(actual, row, kk) ==
    IF actual # {} THEN Frac(Hits(actual, row, kk) \div Cardinality(actual), 1)
    ELSE Zero

\* recall = hits / len(actual_items) if actual_items else 0
Recall(actual, row, kk) ==
    IF actual # {} THEN Frac(Hits(actual, row, kk), Cardinality(actual)) ELSE Zero

\* variant: the term added at a hit is position / num_hits (ratio inverted)
RECURSIVE ApLoopInverted(_, _, _)
ApLoopInverted(actual, s, j) ==
    IF j = 0 THEN <<0, Zero>>
    ELSE LET prev == ApLoopInverted(actual, s, j - 1)
         IN  IF s[j] \in actual
             THEN <<prev[1] + 1, RAdd(prev[2], Frac(j, prev[1] + 1))>>
             ELSE prev

\* variant: the term added at a hit is num_hits, not divided by the position
RECURSIVE ApLoopUndivided(_, _, _)
ApLoopUndivided(actual, s, j) ==
    IF j = 0 THEN <<0, Zero>>
    ELSE LET prev == ApLoopUndivided(actual, s, j - 1)
         IN  IF s[j] \in actual
             THEN <<prev[1] + 1, RAdd(prev[2], Frac(prev[1] + 1, 1))>>
             ELSE prev

\* the MAP loop: state <<num_hits, ap>> after the first j entries of the slice
RECURSIVE ApLoop(_, _, _)
ApLoop(actual, s, j) ==
    IF j = 0 THEN <<0, Zero>>
    ELSE LET prev == ApLoop(actual, s, j - 1)
         IN  IF s[j] \in actual
             THEN <<prev[1] + 1, RAdd(prev[2], Frac(prev[1] + 1, j))>>
             ELSE prev

\* variant: the accumulator is returned without dividing by len(actual_items)
AveragePrecisionUnnormalised(actual, row, kk) ==
    LET s == Slice(row, kk)
    IN  ApLoop(actual, s, Len(s))[2]

\* variant: normalised by min(len(actual_items), k), the forgiving convention
AveragePrecisionByMin(actual, row, kk) ==
    LET s  == Slice(row, kk)
        ap == ApLoop(actual, s, Len(s))[2]
        d  == Min(Cardinality(actual), kk)
    IN  IF d <= 0 THEN Zero ELSE Frac(ap[1], ap[2] * d)

\* average_precision = ap / len(actual_items)     (actual_items non-empty)
AveragePrecision(actual, row, kk) ==
    LET s  == Slice(row, kk)
        ap == ApLoop(actual, s, Len(s))[2]
    IN  Frac(ap[1], ap[2] * Cardinality(actual))

\* variant: every hit adds 1.0, without the position discount
RECURSIVE DcgUndiscounted(_, _, _)
DcgUndiscounted(actual, s, j) ==
    IF j = 0 THEN 0
    ELSE DcgUndiscounted(actual, s, j - 1) + (IF s[j] \in actual THEN 100 ELSE 0)

\* the DCG loop, in hundredths
RECURSIVE Dcg(_, _, _)
Dcg(actual, s, j) ==
    IF j = 0 THEN 0
    ELSE Dcg(actual, s, j - 1) + (IF s[j] \in actual THEN Discount(j - 1) ELSE 0)

\* idcg = sum(1.0 / np.log2(i + 2) for i in range(ideal_hits)), in hundredths
RECURSIVE Idcg(_)
Idcg(ideal_hits) ==
    IF ideal_hits <= 0 THEN 0
    ELSE Idcg(ideal_hits - 1) + Discount(ideal_hits - 1)

\* variant: the ideal ranking is taken to fill all k positions
NdcgIdealOfK(actual, row, kk) ==
    LET s    == Slice(row, kk)
        dcg  == Dcg(actual, s, Len(s))
        idcg == Idcg(kk)
    IN  IF idcg > 0 THEN Frac(dcg, idcg) ELSE Zero

\* ndcg = dcg / idcg if idcg > 0 else 0.0
Ndcg(actual, row, kk) ==
    LET s    == Slice(row, kk)
        dcg  == Dcg(actual, s, Len(s))
        idcg == Idcg(Min(Cardinality(actual), kk))
    IN  IF idcg > 0 THEN Frac(dcg, idcg) ELSE Zero

\* ---- outcomes of a call ----
NoOutcome      == [kind |-> "none",   value |-> <<>>, error |-> ""]
Returned(a, b) == [kind |-> "return", value |-> <<a, b>>, error |-> ""]
Raised(e)      == [kind |-> "raise",  value |-> <<>>, error |-> e]

\* no worker has run: nothing to do, nothing computed, nothing published
ParIdle ==
    [fn |-> "", todo |-> {}, local |-> {}, lists |-> <<<<>>, <<>>>>,
     outcome |-> [f \in Fns |-> NoOutcome]]

\* ---- the state machine ----
n_users == Len(predictions)     \* predictions.shape[0]
n_rows  == Len(test_csr)        \* test_csr.shape[0]

Rows(L)  == [1 .. L -> Items]
Matrices == UNION {[1 .. m -> [Items -> 0 .. MaxCount]] : m \in 0 .. MaxUsers}
Arrays   == UNION {[1 .. n -> Rows(L)] : n \in 0 .. MaxUsers, L \in 0 .. MaxCols}

Init ==
    /\ test_csr \in Matrices
    /\ predictions \in Arrays
    /\ k \in KRange
    /\ pc = "idle"
    /\ fn = ""
    /\ user = 0
    /\ precisions = <<>>
    /\ recalls = <<>>
    /\ map_scores = <<>>
    /\ ndcg_scores = <<>>
    /\ outcome = [f \in Fns |-> NoOutcome]
    /\ par = ParIdle

\* variant: the iteration over the users is a shared iterator that is not
\* renewed on entry, so a call resumes where the last one stopped
CallResumesIteration(f) ==
    /\ pc = "idle"
    /\ pc' = "loop"
    /\ fn' = f
    /\ precisions' = <<>>
    /\ recalls' = <<>>
    /\ map_scores' = <<>>
    /\ ndcg_scores' = <<>>
    /\ UNCHANGED <<inputs, outcome, user, par>>

\* a caller invokes f(test_csr, predictions, k): the locals are set up
Call(f) ==
    /\ pc = "idle"
    /\ pc' = "loop"
    /\ fn' = f
    /\ user' = 0
    /\ precisions' = <<>>
    /\ recalls' = <<>>
    /\ map_scores' = <<>>
    /\ ndcg_scores' = <<>>
    /\ UNCHANGED <<inputs, outcome, par>>

Finish(o) ==
    /\ pc' = "idle"
    /\ outcome' = [outcome EXCEPT ![fn] = o]

\* variant: the loop stops at the matrix's last row and the means of the rows
\* seen so far are returned
IndexClamped(f) ==
    /\ pc = "loop" /\ fn = f
    /\ user < n_users
    /\ user >= n_rows
    /\ Finish(IF f = "simple_evaluation"
              THEN Returned(NpMean(precisions), NpMean(recalls))
              ELSE Returned(IF map_scores # <<>> THEN NpMean(map_scores) ELSE Zero,
                            IF ndcg_scores # <<>> THEN NpMean(ndcg_scores) ELSE Zero))
    /\ UNCHANGED <<inputs, fn, user, precisions, recalls, map_scores, ndcg_scores, par>>

\* test_csr[user] with user past the last row
IndexError(f) ==
    /\ pc = "loop" /\ fn = f
    /\ user < n_users
    /\ user >= n_rows
    /\ Finish(Raised("IndexError"))
    /\ UNCHANGED <<inputs, fn, user, precisions, recalls, map_scores, ndcg_scores, par>>

\* one iteration of simple_evaluation's loop: hits / k with k = 0
SimpleZeroDivision ==
    /\ pc = "loop" /\ fn = "simple_evaluation"
    /\ user < n_users
    /\ user < n_rows
    /\ k = 0
    /\ Finish(Raised("ZeroDivisionError"))
    /\ UNCHANGED <<inputs, fn, user, precisions, recalls, map_scores, ndcg_scores, par>>

\* one iteration of simple_evaluation's loop
SimpleIterate ==
    /\ pc = "loop" /\ fn = "simple_evaluation"
    /\ user < n_users
    /\ user < n_rows
    /\ k # 0
    /\ LET actual_items == ActualItems(test_csr[user + 1])
           row          == predictions[user + 1]
       IN  /\ precisions' = Append(precisions, Precision(actual_items, row, k))
           /\ recalls' = Append(recalls, Recall(actual_items, row, k))
    /\ user' = user + 1
    /\ UNCHANGED <<inputs, pc, fn, map_scores, ndcg_scores, outcome, par>>

\* variant: an empty list is reported as 0.0, as evaluate_ranking_metrics does
SimpleReturnDefaultsToZero ==
    /\ pc = "loop" /\ fn = "simple_evaluation"
    /\ user = n_users
    /\ Finish(Returned(IF precisions # <<>> THEN NpMean(precisions) ELSE Zero,
                       IF recalls # <<>> THEN NpMean(recalls) ELSE Zero))
    /\ UNCHANGED <<inputs, fn, user, precisions, recalls, map_scores, ndcg_scores, par>>

\* after the loop: the two means are returned
SimpleReturn ==
    /\ pc = "loop" /\ fn = "simple_evaluation"
    /\ user = n_users
    /\ Finish(Returned(NpMean(precisions), NpMean(recalls)))
    /\ UNCHANGED <<inputs, fn, user, precisions, recalls, map_scores, ndcg_scores, par>>

\* variant: a user without ground truth is scored 0 instead of skipped
RankingIterateScoresEmpty ==
    /\ pc = "loop" /\ fn = "evaluate_ranking_metrics"
    /\ user < n_users
    /\ user < n_rows
    /\ LET actual_items == ActualItems(test_csr[user + 1])
           row          == predictions[user + 1]
       IN  IF actual_items = {}
           THEN /\ map_scores' = Append(map_scores, Zero)
                /\ ndcg_scores' = Append(ndcg_scores, Zero)
           ELSE /\ map_scores' =
                      Append(map_scores, AveragePrecision(actual_items, row, k))
                /\ ndcg_scores' = Append(ndcg_scores, Ndcg(actual_items, row, k))
    /\ user' = user + 1
    /\ UNCHANGED <<inputs, pc, fn, precisions, recalls, outcome, par>>

\* one iteration of evaluate_ranking_metrics' loop
RankingIterate ==
    /\ pc = "loop" /\ fn = "evaluate_ranking_metrics"
    /\ user < n_users
    /\ user < n_rows
    /\ LET actual_items == ActualItems(test_csr[user + 1])
           row          == predictions[user + 1]
       IN  IF actual_items = {}
           THEN UNCHANGED <<map_scores, ndcg_scores>>
           ELSE /\ map_scores' =
                      Append(map_scores, AveragePrecision(actual_items, row, k))
                /\ ndcg_scores' = Append(ndcg_scores, Ndcg(actual_items, row, k))
    /\ user' = user + 1
    /\ UNCHANGED <<inputs, pc, fn, precisions, recalls, outcome, par>>

\* variant: the means are taken without the empty-list guard
RankingReturnUnguarded ==
    /\ pc = "loop" /\ fn = "evaluate_ranking_metrics"
    /\ user = n_users
    /\ Finish(Returned(NpMean(map_scores), NpMean(ndcg_scores)))
    /\ UNCHANGED <<inputs, fn, user, precisions, recalls, map_scores, ndcg_scores, par>>

\* after the loop: the two means, 0.0 for an empty list
RankingReturn ==
    /\ pc = "loop" /\ fn = "evaluate_ranking_metrics"
    /\ user = n_users
    /\ Finish(Returned(IF map_scores # <<>> THEN NpMean(map_scores) ELSE Zero,
                       IF ndcg_scores # <<>> THEN NpMean(ndcg_scores) ELSE Zero))
    /\ UNCHANGED <<inputs, fn, user, precisions, recalls, map_scores, ndcg_scores, par>>

Next ==
    \/ \E f \in Fns : Call(f)
    \/ \E f \in Fns : IndexError(f)
    \/ SimpleZeroDivision
    \/ SimpleIterate
    \/ SimpleReturn
    \/ RankingIterate
    \/ RankingReturn

Spec == Init /\ [][Next]_vars

TypeOK ==
    /\ pc \in {"idle", "loop"}
    /\ fn \in Fns \cup {""}
    /\ user \in 0 .. MaxUsers
    /\ Len(precisions) = Len(recalls)
    /\ Len(map_scores) = Len(ndcg_scores)

\* ---- vocabulary of the properties ----
NUsers == Len(predictions)
NRows  == Len(test_csr)
NCols  == IF NUsers = 0 THEN 0 ELSE Len(predictions[1])

\* ground-truth set of user u: columns of the held-out row with value > 0
G(u) == {i \in Items : test_csr[u][i] > 0}

\* the first K entries of user u's row, as a set (K >= 1)
TopK(u) == {predictions[u][i] : i \in {j \in 1 .. Len(predictions[u]) : j <= k}}

\* H: members of the ground truth among the first K entries
H(u) == Cardinality(G(u) \cap TopK(u))

\* the first K entries of user u's row hold no item twice
NoDuplicates(u) ==
    \A i, j \in 1 .. Len(predictions[u]) :
        (i < j /\ j <= k) => predictions[u][i] # predictions[u][j]

\* users with non-empty ground truth among the first u, = index in map_scores
QualIndex(u) == Cardinality({v \in 1 .. u : G(v) # {}})

\* x = n / d
RIs(x, n, d) == ~IsNaN(x) /\ x[1] * d = n * x[2]

\* the running (or last) call is f; its locals are the ones in the state
InCall(f) == fn = f
JustReturned(f) == pc = "idle" /\ fn = f /\ outcome[f].kind = "return"

\* ---- C1 ----
\* C1: in simple_evaluation with K >= 1, the value recorded for each user is
\* precision H/K and recall H/G (0 when G = 0), and the returned pair is the
\* arithmetic mean of these values over all rows of the prediction array.
C1_PrecisionRecall ==
    (k >= 1 /\ InCall("simple_evaluation")) =>
        /\ \A u \in 1 .. Len(precisions) :
              /\ RIs(precisions[u], H(u), k)
              /\ IF G(u) = {} THEN recalls[u] = Zero
                 ELSE RIs(recalls[u], H(u), Cardinality(G(u)))
        /\ JustReturned("simple_evaluation") =>
              /\ Len(precisions) = NUsers
              /\ outcome["simple_evaluation"].value =
                    <<NpMean([u \in 1 .. NUsers |-> Frac(H(u), k)]),
                      NpMean([u \in 1 .. NUsers |->
                                 IF G(u) = {} THEN Zero
                                 ELSE Frac(H(u), Cardinality(G(u)))])>>

\* a user with G = 2 and H = 1 under K = 3 > row length, in a two-row call
C1_Witness ==
    /\ JustReturned("simple_evaluation")
    /\ k = 3 /\ NUsers = 2 /\ NCols = 2
    /\ Cardinality(G(1)) = 2 /\ H(1) = 1
    /\ G(2) = {}
    /\ outcome["simple_evaluation"].value = <<Frac(1, 6), Frac(1, 4)>>

\* ---- C2 ----
\* C2: for every K <= 0 both functions end in an InvalidArgument-class error
\* raised before any per-user iteration, and return no metric values.
C2_InvalidK ==
    k <= 0 =>
        /\ user = 0
        /\ \A f \in Fns :
              \/ outcome[f].kind = "none"
              \/ outcome[f].kind = "raise" /\ outcome[f].error = "InvalidArgument"

\* ---- C3 ----
\* C3 (as claimed): for every K >= 1 and every row the engine accepts, repeated
\* items included, each per-user Precision@K, Recall@K, AP@K and NDCG@K lies in
\* [0,1].
C3_AllInUnit ==
    k >= 1 =>
        /\ \A i \in 1 .. Len(precisions) : InUnit(precisions[i]) /\ InUnit(recalls[i])
        /\ \A i \in 1 .. Len(map_scores) : InUnit(map_scores[i]) /\ InUnit(ndcg_scores[i])

\* every row repeats no item within its first K entries
AllNoDuplicates == \A u \in 1 .. NUsers : NoDuplicates(u)

\* C3 (amended): for K >= 1, per-user Precision@K and Recall@K lie in [0,1] for
\* every row; per-user AP@K and NDCG@K lie in [0,1] for every row whose first K
\* entries hold no item twice; avg_map and avg_ndcg lie in [0,1] when no row
\* repeats an item in its first K entries, avg_precision and avg_recall when
\* the prediction array has at least one row.
C3_InUnitWithoutDuplicates ==
    k >= 1 =>
        /\ \A i \in 1 .. Len(precisions) : InUnit(precisions[i]) /\ InUnit(recalls[i])
        /\ InCall("evaluate_ranking_metrics") =>
              \A u \in 1 .. user :
                  (G(u) # {} /\ NoDuplicates(u)) =>
                      /\ QualIndex(u) <= Len(map_scores)
                      /\ InUnit(map_scores[QualIndex(u)])
                      /\ InUnit(ndcg_scores[QualIndex(u)])
        /\ (outcome["simple_evaluation"].kind = "return" /\ NUsers >= 1) =>
              /\ InUnit(outcome["simple_evaluation"].value[1])
              /\ InUnit(outcome["simple_evaluation"].value[2])
        /\ (outcome["evaluate_ranking_metrics"].kind = "return" /\ AllNoDuplicates) =>
              /\ InUnit(outcome["evaluate_ranking_metrics"].value[1])
              /\ InUnit(outcome["evaluate_ranking_metrics"].value[2])

\* two duplicate-free rows with ground truth whose MAP and NDCG means fall
\* strictly between 0 and 1
C3_Witness ==
    /\ JustReturned("evaluate_ranking_metrics")
    /\ k >= 2 /\ NUsers = 2 /\ NCols >= 2
    /\ AllNoDuplicates
    /\ Len(map_scores) = 2
    /\ RLt(Zero, outcome[fn].value[1]) /\ RLt(outcome[fn].value[1], One)
    /\ RLt(Zero, outcome[fn].value[2]) /\ RLt(outcome[fn].value[2], One)

\* ---- C4 ----
\* the users with non-empty ground truth among the first u, in row order
RECURSIVE Qualifying(_)
Qualifying(u) ==
    IF u = 0 THEN <<>>
    ELSE IF G(u) # {} THEN Append(Qualifying(u - 1), u) ELSE Qualifying(u - 1)

\* C4: a user with empty ground truth is counted in simple_evaluation with
\* precision 0 and recall 0 (the means divide by the number of prediction
\* rows) and is skipped by evaluate_ranking_metrics (the means divide by the
\* number of users with ground truth), so such a user never changes avg_map
\* or avg_ndcg: they are the means over the users with ground truth alone.
C4_EmptyGroundTruth ==
    /\ InCall("simple_evaluation") =>
          /\ Len(precisions) = user
          /\ \A u \in 1 .. user :
                G(u) = {} => precisions[u] = Zero /\ recalls[u] = Zero
          /\ (JustReturned("simple_evaluation") /\ NUsers > 0) =>
                LET p == RSum(precisions)
                    r == RSum(recalls)
                IN  outcome[fn].value =
                        <<Frac(p[1], p[2] * NUsers), Frac(r[1], r[2] * NUsers)>>
    /\ InCall("evaluate_ranking_metrics") =>
          /\ Len(map_scores) = QualIndex(user)
          /\ Len(ndcg_scores) = QualIndex(user)
          /\ (JustReturned("evaluate_ranking_metrics") /\ QualIndex(NUsers) > 0) =>
                LET q == Qualifying(NUsers)
                IN  outcome[fn].value =
                        <<NpMean([i \in 1 .. Len(q) |->
                             AveragePrecision(G(q[i]), predictions[q[i]], k)]),
                          NpMean([i \in 1 .. Len(q) |->
                             Ndcg(G(q[i]), predictions[q[i]], k)])>>

\* a user without ground truth next to a user with a perfect row: the
\* ranking means stay 1 while precision and recall are halved
C4_Witness ==
    /\ outcome["simple_evaluation"].kind = "return"
    /\ JustReturned("evaluate_ranking_metrics")
    /\ k = 1 /\ NUsers = 2
    /\ G(1) = {} /\ G(2) # {}
    /\ outcome["evaluate_ranking_metrics"].value = <<One, One>>
    /\ outcome["simple_evaluation"].value = <<Frac(1, 2), Frac(1, 2)>>

\* ---- C5 ----
\* no user of the prediction array qualifies: there is none, or all have an
\* empty ground-truth set
NoneQualifies == \A u \in 1 .. NUsers : u <= NRows /\ G(u) = {}

\* C5: evaluate_ranking_metrics returns exactly (0, 0), never NaN and never an
\* error, when no user qualifies (zero prediction rows, or only users with an
\* empty ground-truth set).
C5_NeutralZero ==
    NoneQualifies =>
        /\ outcome["evaluate_ranking_metrics"].kind # "raise"
        /\ outcome["evaluate_ranking_metrics"].kind = "return" =>
              outcome["evaluate_ranking_metrics"].value = <<Zero, Zero>>

\* two users, both without ground truth, and the call has returned
C5_Witness ==
    /\ JustReturned("evaluate_ranking_metrics")
    /\ NUsers = 2 /\ NoneQualifies
    /\ user = 2
    /\ outcome[fn].value = <<Zero, Zero>>

\* ---- C6 ----
\* C6: simple_evaluation with K >= 1 and zero prediction rows returns NaN for
\* both averages: it neither raises nor substitutes a default.
C6_EmptyIsNaN ==
    (k >= 1 /\ NUsers = 0) =>
        /\ outcome["simple_evaluation"].kind # "raise"
        /\ outcome["simple_evaluation"].kind = "return" =>
              /\ IsNaN(outcome["simple_evaluation"].value[1])
              /\ IsNaN(outcome["simple_evaluation"].value[2])

\* zero prediction rows against a two-row matrix, and the call has returned
C6_Witness ==
    /\ JustReturned("simple_evaluation")
    /\ k >= 1 /\ NUsers = 0 /\ NRows = 2
    /\ outcome[fn].value = <<NaN, NaN>>

C8_ZeroColumnsRejected ==
    (k > 0 /\ NUsers >= 1 /\ NCols = 0) =>
        \A f \in Fns : outcome[f].kind # "return"

\* ---- C9 ----
\* all entries of user u's row, as a set
WholeRow(u) == {predictions[u][i] : i \in 1 .. Len(predictions[u])}

\* what the claim says of the values when K > L: every entry of the row is
\* used, and precision is hits / K, at most L / K
C9_UsesAllEntries ==
    /\ InCall("simple_evaluation") =>
          \A u \in 1 .. Len(precisions) :
              /\ RIs(precisions[u], Cardinality(G(u) \cap WholeRow(u)), k)
              /\ RLeq(precisions[u], Frac(NCols, k))
              /\ G(u) # {} =>
                    RIs(recalls[u], Cardinality(G(u) \cap WholeRow(u)),
                        Cardinality(G(u)))
    /\ InCall("evaluate_ranking_metrics") =>
          \A u \in 1 .. user :
              G(u) # {} =>
                  /\ QualIndex(u) <= Len(map_scores)
                  /\ map_scores[QualIndex(u)] =
                        AveragePrecision(G(u), predictions[u], NCols)
                  /\ ndcg_scores[QualIndex(u)] =
                        Frac(Dcg(G(u), predictions[u], NCols),
                             Idcg(Min(Cardinality(G(u)), k)))

\* C9 (as claimed): when K > L >= 1 neither function raises an error; each
\* uses all L entries of a row and precision is hits / K, at most L / K.
C9_NeverRaises ==
    (NCols >= 1 /\ k > NCols) =>
        /\ \A f \in Fns : outcome[f].kind # "raise"
        /\ C9_UsesAllEntries

\* C9 (amended): when K > L >= 1 and every prediction row has a row in the
\* held-out matrix, neither function raises an error; each uses all L entries
\* of a row and precision is hits / K, at most L / K.  (With more prediction
\* rows than matrix rows the out-of-range error is raised, and only that.)
C9_LongK ==
    (NCols >= 1 /\ k > NCols) =>
        /\ \A f \in Fns :
              outcome[f].kind = "raise" =>
                  NUsers > NRows /\ outcome[f].error = "IndexError"
        /\ C9_UsesAllEntries

\* K = 4 over rows of two entries, both hits: precision is 2/4, and both
\* functions have returned
C9_Witness ==
    /\ JustReturned("simple_evaluation")
    /\ outcome["evaluate_ranking_metrics"].kind = "return"
    /\ k = 4 /\ NCols = 2 /\ NUsers >= 1 /\ NUsers <= NRows
    /\ precisions[1] = Frac(2, 4)
    /\ recalls[1] = One

\* ---- C10 ----
\* row b is row a with a hit moved earlier: a hit at position j <= K and a
\* non-hit at an earlier position i have changed places
HitMovedEarlier(a, b) ==
    \E i, j \in 1 .. Len(predictions[a]) :
        /\ i < j /\ j <= k
        /\ predictions[a][i] \notin G(a)
        /\ predictions[a][j] \in G(a)
        /\ predictions[b] = [predictions[a] EXCEPT ![i] = predictions[a][j],
                                                   ![j] = predictions[a][i]]

\* C10: for a fixed ground-truth set, swapping a hit within the top K with a
\* non-hit at an earlier position never decreases the user's AP@K.
C10_ApMonotone ==
    InCall("evaluate_ranking_metrics") =>
        \A a, b \in 1 .. user :
            (G(a) # {} /\ G(a) = G(b) /\ HitMovedEarlier(a, b)) =>
                RLeq(map_scores[QualIndex(a)], map_scores[QualIndex(b)])

\* two users with the same ground truth, the second row being the first with
\* its hit moved from position 3 to position 1, and a larger AP for it
C10_Witness ==
    /\ JustReturned("evaluate_ranking_metrics")
    /\ k >= 3 /\ NUsers = 2 /\ user = 2 /\ NCols = 3
    /\ G(1) # {} /\ G(1) = G(2)
    /\ predictions[1][1] \notin G(1) /\ predictions[1][3] \in G(1)
    /\ predictions[2] = [predictions[1] EXCEPT ![1] = predictions[1][3],
                                               ![3] = predictions[1][1]]
    /\ RLt(map_scores[1], map_scores[2])
\* ---- C11 ----
\* the first c slots of user u's row exist and are all in the ground truth
TopSlotsAllHits(u, c) ==
    /\ Len(predictions[u]) >= c
    /\ \A i \in 1 .. c : predictions[u][i] \in G(u)

\* sum of the position discounts 1/log2(i+1), i = 1..c, in hundredths
RECURSIVE DiscountSum(_)
DiscountSum(c) == IF c = 0 THEN 0 ELSE DiscountSum(c - 1) + Log2Inv[c]

\* DCG of user u: the discounts of the positions <= K that hold a hit
RECURSIVE HitDiscounts(_, _)
HitDiscounts(u, i) ==
    IF i = 0 THEN 0
    ELSE HitDiscounts(u, i - 1)
         + (IF i <= k /\ predictions[u][i] \in G(u) THEN Log2Inv[i] ELSE 0)

\* the divisor of NDCG is the ideal DCG over min(G, K) positions
C11_IdealDivisor(u) ==
    RIs(ndcg_scores[QualIndex(u)], HitDiscounts(u, Len(predictions[u])),
        DiscountSum(Min(Cardinality(G(u)), k)))

ExampleMatrix(c) ==
    <<[i \in 0 .. 5 |-> IF i \in {2, 5} THEN c ELSE 0], [i \in 0 .. 5 |-> 0]>>
ExamplePredictions == <<<<5, 2, 9, 9, 9>>, <<1, 2, 3, 4, 5>>>>

\* the example and its truncations: fewer rows, fewer columns, any k
InitExample ==
    /\ test_csr \in {SubSeq(ExampleMatrix(c), 1, m) :
                        c \in 1 .. MaxCount, m \in 0 .. 2}
    /\ predictions \in {[u \in 1 .. n |-> SubSeq(ExamplePredictions[u], 1, L)] :
                           n \in 0 .. 2, L \in 0 .. 5}
    /\ k \in KRange
    /\ pc = "idle"
    /\ fn = ""
    /\ user = 0
    /\ precisions = <<>>
    /\ recalls = <<>>
    /\ map_scores = <<>>
    /\ ndcg_scores = <<>>
    /\ outcome = [f \in Fns |-> NoOutcome]
    /\ par = ParIdle

SpecExample == InitExample /\ [][Next]_vars

IsExample ==
    /\ \E c \in 1 .. MaxCount : test_csr = ExampleMatrix(c)
    /\ predictions = ExamplePredictions
    /\ k = 2

\* C12: on the worked example with K = 2, simple_evaluation returns
\* (0.5, 0.5) and evaluate_ranking_metrics returns (1.0, 1.0).
C12_WorkedExample ==
    IsExample =>
        /\ \A f \in Fns : outcome[f].kind # "raise"
        /\ outcome["simple_evaluation"].kind = "return" =>
              outcome["simple_evaluation"].value = <<Frac(1, 2), Frac(1, 2)>>
        /\ outcome["evaluate_ranking_metrics"].kind = "return" =>
              outcome["evaluate_ranking_metrics"].value = <<One, One>>
        /\ JustReturned("evaluate_ranking_metrics") => Len(map_scores) = 1

\* both functions have returned on the worked example
C12_Witness ==
    /\ IsExample
    /\ outcome["simple_evaluation"].kind = "return"
    /\ JustReturned("evaluate_ranking_metrics")
    /\ map_scores = <<One>> /\ ndcg_scores = <<One>>
\* ---- C13 ----
\* sum, over the positions i <= min(c, K) of user u's row that hold a member
\* of the ground truth, of (hits up to and including i) / i
RECURSIVE PrecisionAtHits(_, _)
PrecisionAtHits(u, c) ==
    IF c = 0 THEN Zero
    ELSE RAdd(PrecisionAtHits(u, c - 1),
              IF c <= k /\ predictions[u][c] \in G(u)
              THEN Frac(Cardinality({j \in 1 .. c : predictions[u][j] \in G(u)}), c)
              ELSE Zero)

\* C13: per-user AP@K (K >= 0, so that "the first K entries" are defined) is
\* the sum over the hit positions i among the first K entries of
\* (hits up to i) / i, divided by the full ground-truth size |G_u|; a user
\* with |G_u| > K never reaches AP@K = 1, whatever the row contains.
C13_StrictNormalisation ==
    (k >= 0 /\ InCall("evaluate_ranking_metrics")) =>
        \A u \in 1 .. user :
            G(u) # {} =>
                LET acc == PrecisionAtHits(u, Len(predictions[u]))
                    ap  == map_scores[QualIndex(u)]
                IN  /\ ap = Frac(acc[1], acc[2] * Cardinality(G(u)))
                    /\ Cardinality(G(u)) > k => RLt(ap, One)

\* a user with two true items and K = 1 whose single slot is a hit: AP = 1/2
C13_Witness ==
    /\ JustReturned("evaluate_ranking_metrics")
    /\ k = 1 /\ NUsers >= 1 /\ NCols >= 2
    /\ Cardinality(G(1)) = 2
    /\ predictions[1][1] \in G(1)
    /\ map_scores[1] = Frac(1, 2)
\* ---- C14 ----
\* C14: both functions are deterministic and free of hidden state: every call
\* of a function ends as its earlier calls on the same arguments ended (same
\* values, or the same error), whatever calls ran in between, and no step of
\* any call changes the held-out matrix, the prediction array or k.
C14_Deterministic ==
    [][/\ inputs' = inputs
       /\ \A f \in Fns : outcome[f].kind # "none" => outcome'[f] = outcome[f]]_vars

\* a repeated call of simple_evaluation at the end of its loop, with its
\* earlier result on record and a call of evaluate_ranking_metrics in between
C14_Witness ==
    /\ pc = "loop" /\ fn = "simple_evaluation"
    /\ NUsers = 2 /\ user = 2 /\ k >= 1
    /\ outcome["simple_evaluation"].kind = "return"
    /\ outcome["evaluate_ranking_metrics"].kind = "return"
    /\ outcome["simple_evaluation"].value = <<NpMean(precisions), NpMean(recalls)>>
    /\ precisions[1] # precisions[2]
\* ---- C15 ----
\* The parallel variant: after a sequential call of f, one worker per
\* prediction row computes that row's scalars from that row alone; workers
\* compute and publish in any order; the published scalars are combined by
\* sum then divide by count.
seqvars == <<pc, fn, user, precisions, recalls, map_scores, ndcg_scores, outcome>>

\* the scalars of row u (0-based): <<>> for a row evaluate_ranking_metrics skips
WorkerScalars(f, u) ==
    LET actual_items == ActualItems(test_csr[u + 1])
        row          == predictions[u + 1]
    IN  IF f = "simple_evaluation"
        THEN <<Precision(actual_items, row, k), Recall(actual_items, row, k)>>
        ELSE IF actual_items = {} THEN <<>>
        ELSE <<AveragePrecision(actual_items, row, k), Ndcg(actual_items, row, k)>>

StartWorkers(f) ==
    /\ par = ParIdle
    /\ pc = "idle" /\ fn = f /\ outcome[f].kind # "none"
    /\ par' = [par EXCEPT !.fn = f, !.todo = 0 .. (n_users - 1)]
    /\ UNCHANGED <<inputs, seqvars>>

WorkerCompute(u) ==
    /\ par.fn # ""
    /\ u \in par.todo
    /\ u < n_rows
    /\ par.fn = "evaluate_ranking_metrics" \/ k # 0
    /\ par' = [par EXCEPT !.todo = @ \ {u},
                          !.local = @ \cup {<<u, WorkerScalars(par.fn, u)>>}]
    /\ UNCHANGED <<inputs, seqvars>>

WorkerFail(u) ==
    /\ par.fn # ""
    /\ u \in par.todo
    /\ u >= n_rows \/ (par.fn = "simple_evaluation" /\ k = 0)
    /\ par' = [ParIdle EXCEPT
                  !.outcome = [par.outcome EXCEPT ![par.fn] =
                      Raised(IF u >= n_rows THEN "IndexError"
                             ELSE "ZeroDivisionError")]]
    /\ UNCHANGED <<inputs, seqvars>>

WorkerPublish(p) ==
    /\ p \in par.local
    /\ par' = [par EXCEPT
                  !.local = @ \ {p},
                  !.lists = IF p[2] = <<>> THEN @
                            ELSE <<Append(@[1], p[2][1]), Append(@[2], p[2][2])>>]
    /\ UNCHANGED <<inputs, seqvars>>

Combine ==
    /\ par.fn # ""
    /\ par.todo = {} /\ par.local = {}
    /\ par' = [par EXCEPT
                  !.fn = "",
                  !.outcome[par.fn] =
                      IF par.fn = "simple_evaluation"
                      THEN Returned(NpMean(par.lists[1]), NpMean(par.lists[2]))
                      ELSE Returned(IF par.lists[1] # <<>> THEN NpMean(par.lists[1])
                                    ELSE Zero,
                                    IF par.lists[2] # <<>> THEN NpMean(par.lists[2])
                                    ELSE Zero)]
    /\ UNCHANGED <<inputs, seqvars>>

NextWorkers ==
    \/ par = ParIdle /\ Next
    \/ \E f \in Fns : StartWorkers(f)
    \/ \E u \in 0 .. (MaxUsers - 1) : WorkerCompute(u)
    \/ \E u \in 0 .. (MaxUsers - 1) : WorkerFail(u)
    \/ \E p \in par.local : WorkerPublish(p)
    \/ Combine

SpecWorkers == Init /\ [][NextWorkers]_vars

FirstK(row) == SubSeq(row, 1, Min(k, Len(row)))

\* P has a row for every user, and each row agrees with the user's row of
\* predictions on the first K columns
AgreesOnFirstK(P) ==
    /\ Len(P) = NUsers
    /\ \A u \in 1 .. NUsers : FirstK(P[u]) = FirstK(predictions[u])

\* the per-user lists of the two functions, computed on the array P
SimpleScoresOn(P, which) ==
    [u \in 1 .. Len(P) |->
        IF which = 1 THEN Precision(ActualItems(test_csr[u]), P[u], k)
        ELSE Recall(ActualItems(test_csr[u]), P[u], k)]

RECURSIVE RankingScoresOn(_, _, _)
RankingScoresOn(P, u, which) ==
    IF u = 0 THEN <<>>
    ELSE LET rest   == RankingScoresOn(P, u - 1, which)
             actual == ActualItems(test_csr[u])
         IN  IF actual = {} THEN rest
             ELSE Append(rest, IF which = 1 THEN AveragePrecision(actual, P[u], k)
                               ELSE Ndcg(actual, P[u], k))

MeanOrZero(s) == IF s # <<>> THEN NpMean(s) ELSE Zero

\* C16: for K >= 1 only the first K entries of a recommendation row influence
\* the result: what simple_evaluation and evaluate_ranking_metrics return for
\* predictions is what they give for every array that agrees with predictions
\* on the first K columns of every row, whatever stands past column K.
C16_FirstKOnly ==
    k >= 1 =>
        \A P \in Arrays :
            AgreesOnFirstK(P) =>
                /\ JustReturned("simple_evaluation") =>
                      outcome["simple_evaluation"].value =
                          <<NpMean(SimpleScoresOn(P, 1)), NpMean(SimpleScoresOn(P, 2))>>
                /\ JustReturned("evaluate_ranking_metrics") =>
                      outcome["evaluate_ranking_metrics"].value =
                          <<MeanOrZero(RankingScoresOn(P, NUsers, 1)),
                            MeanOrZero(RankingScoresOn(P, NUsers, 2))>>

\* K = 1, three columns, the second column is a hit that does not count: the
\* ranking call has returned 0 although the row holds a true item
C16_Witness ==
    /\ JustReturned("evaluate_ranking_metrics")
    /\ k = 1 /\ NUsers = 1 /\ NCols = 3
    /\ G(1) = {1}
    /\ predictions[1] = <<0, 1, 1>>
    /\ outcome["evaluate_ranking_metrics"].value = <<Zero, Zero>>
\* ---- C17 ----
\* The second notebook's definitions of the two functions, as functions of
\* the inputs: the state of the loop after u users, then the return statement.
RECURSIVE SimpleLoop2(_)
SimpleLoop2(u) ==
    IF u = 0 THEN [error |-> "", lists |-> <<<<>>, <<>>>>]
    ELSE LET prev == SimpleLoop2(u - 1)
         IN  IF prev.error # "" THEN prev
             ELSE IF u > Len(test_csr) THEN [prev EXCEPT !.error = "IndexError"]
             ELSE LET user_actual       == test_csr[u]
                      actual_items      == {i \in DOMAIN user_actual : user_actual[i] > 0}
                      top               == Slice(predictions[u], k)
                      recommended_items == {top[i] : i \in 1 .. Len(top)}
                      hits              == Cardinality(actual_items \cap recommended_items)
                  IN  IF k = 0 THEN [prev EXCEPT !.error = "ZeroDivisionError"]
                      ELSE [prev EXCEPT !.lists =
                              <<Append(@[1], Frac(hits, k)),
                                Append(@[2], IF actual_items # {}
                                             THEN Frac(hits, Cardinality(actual_items))
                                             ELSE Zero)>>]

simple_evaluation_2 ==
    LET end == SimpleLoop2(Len(predictions))
    IN  IF end.error # "" THEN Raised(end.error)
        ELSE Returned(NpMean(end.lists[1]), NpMean(end.lists[2]))

\* <<num_hits, ap>> after the first j entries of the slice
RECURSIVE MapLoop2(_, _, _)
MapLoop2(actual_items, s, j) ==
    IF j = 0 THEN <<0, Zero>>
    ELSE LET prev == MapLoop2(actual_items, s, j - 1)
         IN  IF s[j] \in actual_items
             THEN <<prev[1] + 1, RAdd(prev[2], Frac(prev[1] + 1, j))>>
             ELSE prev

\* dcg after the first j entries of the slice, in hundredths
RECURSIVE DcgLoop2(_, _, _)
DcgLoop2(actual_items, s, j) ==
    IF j = 0 THEN 0
    ELSE DcgLoop2(actual_items, s, j - 1)
             + (IF s[j] \in actual_items THEN Log2Inv[j] ELSE 0)

\* sum(1.0 / np.log2(i + 2) for i in range(ideal_hits)), in hundredths
RECURSIVE IdcgSum2(_)
IdcgSum2(ideal_hits) ==
    IF ideal_hits <= 0 THEN 0 ELSE IdcgSum2(ideal_hits - 1) + Log2Inv[ideal_hits]

RECURSIVE RankingLoop2(_)
RankingLoop2(u) ==
    IF u = 0 THEN [error |-> "", lists |-> <<<<>>, <<>>>>]
    ELSE LET prev == RankingLoop2(u - 1)
         IN  IF prev.error # "" THEN prev
             ELSE IF u > Len(test_csr) THEN [prev EXCEPT !.error = "IndexError"]
             ELSE LET user_actual  == test_csr[u]
                      actual_items == {i \in DOMAIN user_actual : user_actual[i] > 0}
                      top          == Slice(predictions[u], k)
                      ap           == MapLoop2(actual_items, top, Len(top))[2]
                      dcg          == DcgLoop2(actual_items, top, Len(top))
                      ideal_hits   == Min(Cardinality(actual_items), k)
                      idcg         == IdcgSum2(ideal_hits)
                  IN  IF actual_items = {} THEN prev
                      ELSE [prev EXCEPT !.lists =
                              <<Append(@[1], Frac(ap[1], ap[2] * Cardinality(actual_items))),
                                Append(@[2], IF idcg > 0 THEN Frac(dcg, idcg) ELSE Zero)>>]

evaluate_ranking_metrics_2 ==
    LET end == RankingLoop2(Len(predictions))
    IN  IF end.error # "" THEN Raised(end.error)
        ELSE Returned(IF end.lists[1] # <<>> THEN NpMean(end.lists[1]) ELSE Zero,
                      IF end.lists[2] # <<>> THEN NpMean(end.lists[2]) ELSE Zero)

SecondDefinition(f) ==
    IF f = "simple_evaluation" THEN simple_evaluation_2 ELSE evaluate_ranking_metrics_2

\* C17: the two definitions of each function in the file are equivalent: on
\* every held-out matrix, prediction array and K, a finished call of the first
\* definition has returned the values the second definition gives, or has
\* failed with the error the second definition fails with.
C17_DefinitionsEquivalent ==
    \A f \in Fns : outcome[f].kind # "none" => outcome[f] = SecondDefinition(f)

\* both functions have finished on two users with different ground truth and
\* a hit in the second slot, and their results differ from each other
C17_Witness ==
    /\ JustReturned("evaluate_ranking_metrics")
    /\ outcome["simple_evaluation"].kind = "return"
    /\ NUsers = 2 /\ k = 2 /\ NCols = 3
    /\ G(1) = {1} /\ G(2) = {0, 1}
    /\ predictions[1] = <<0, 1, 1>>
    /\ outcome["evaluate_ranking_metrics"] = evaluate_ranking_metrics_2
    /\ outcome["evaluate_ranking_metrics"].value[1] # outcome["simple_evaluation"].value[1]
\* ---- C18 ----
\* both functions have returned on the inputs of the state
BothReturned == \A f \in Fns : outcome[f].kind = "return"

\* the four aggregates: avg_precision, avg_recall, avg_map, avg_ndcg
Aggregates ==
    outcome["simple_evaluation"].value \o outcome["evaluate_ranking_metrics"].value

\* some user has one of their first K recommended items in their ground truth
SomeUserHits == \E u \in 1 .. NUsers : H(u) > 0

\* C18: for K >= 1 and at least one prediction row, the four aggregates are
\* positive together or zero together: each of avg_precision, avg_recall,
\* avg_map and avg_ndcg is > 0 exactly when some user has one of their first K
\* recommended items in their ground-truth set, and is 0 otherwise.
C18_PositiveTogether ==
    (k >= 1 /\ NUsers >= 1 /\ BothReturned) =>
        \A i \in 1 .. 4 :
            /\ ~IsNaN(Aggregates[i])
            /\ RLt(Zero, Aggregates[i]) <=> SomeUserHits
            /\ ~SomeUserHits => Aggregates[i] = Zero

\* two users, one without any hit and one with a single hit in the second of
\* K = 2 slots: all four aggregates are positive
C18_Witness ==
    /\ BothReturned /\ pc = "idle"
    /\ k = 2 /\ NUsers = 2 /\ NCols = 3
    /\ H(1) = 0 /\ G(1) # {}
    /\ G(2) = {1} /\ predictions[2] = <<0, 1, 1>>
    /\ \A i \in 1 .. 4 : RLt(Zero, Aggregates[i])
\* ---- C19 ----
\* per-user Recall@K as simple_evaluation computes it for user u
UserRecall(u) == Recall(ActualItems(test_csr[u]), predictions[u], k)

\* C19: for K >= 1 and every user with non-empty ground truth whose first K
\* recommended entries hold no item twice, the per-user AP@K recorded by
\* evaluate_ranking_metrics is at most the per-user Recall@K of
\* simple_evaluation; for a single-user input, avg_map <= avg_recall.
C19_ApAtMostRecall ==
    k >= 1 =>
        /\ InCall("evaluate_ranking_metrics") =>
              \A u \in 1 .. user :
                  (G(u) # {} /\ NoDuplicates(u)) =>
                      RLeq(map_scores[QualIndex(u)], UserRecall(u))
        /\ (NUsers = 1 /\ BothReturned /\ G(1) # {} /\ NoDuplicates(1)) =>
              RLeq(outcome["evaluate_ranking_metrics"].value[1],
                   outcome["simple_evaluation"].value[2])

\* one user, one true item found in the second of K = 2 slots: AP = 1/2 is
\* below recall = 1, and both functions have returned
C19_Witness ==
    /\ JustReturned("evaluate_ranking_metrics") /\ BothReturned
    /\ k = 2 /\ NUsers = 1 /\ user = 1 /\ NCols >= 2
    /\ G(1) = {1} /\ NoDuplicates(1)
    /\ predictions[1][1] = 0 /\ predictions[1][2] = 1
    /\ map_scores[1] = Frac(1, 2)
    /\ outcome["evaluate_ranking_metrics"].value[1] = Frac(1, 2)
    /\ outcome["simple_evaluation"].value[2] = One
====
